---------------------------- MODULE Spec2Model ----------------------------
(***************************************************************************)
(* A model of the BangaloreWeather fetch scripts:                          *)
(*   scripts/fetch_imd_combined.py   (Open-Meteo forecast + IMD page)      *)
(*   scripts/fetch_imd_bengaluru.py  (IMD district source)                 *)
(***************************************************************************)
EXTENDS Integers, Sequences, FiniteSets, TLC

VARIABLES
    pw_paragraphs, \* pick_warnings: its argument
    picked,        \* pick_warnings: its run (see pick_warnings_run)
    wpc,           \* pick_warnings: "input" before the call, "done" after it
    document,      \* extract_visible_paragraphs: the parsed document
    extracted,     \* extract_visible_paragraphs: its run (see extract_run)
    xpc,           \* extract_visible_paragraphs: "input" or "done"
    payload_in,    \* save_if_changed called alone: its argument
    spc,           \* save_if_changed called alone: "input" or "done"
    script,        \* the script run: "combined" or "bengaluru"
    url_set,       \* whether IMD_SOURCE_URL is set (fetch_imd_bengaluru.py)
    imd_json,      \* the file imd.json
    pc,            \* where main is: "start", a fetch, "save", "exited"
    fetch,         \* the call of fetch_with_retries in progress
    om,            \* main's om
    imd,           \* main's imd
    clock,         \* the time of the last now_iso()
    changed,       \* what save_if_changed did in this run: "none" (not called),
                   \* "written" (returned True), "skipped" (returned False)
    runs,          \* the runs started
    exit_code,     \* the exit status of the run that ended
    snapshot,      \* the payload this run handed to save_if_changed
    served,        \* the body each fetch of this run returned ("none": no body)
    prev_run,      \* the run before: whether it reached save_if_changed, and
                   \* the bodies it was served
    file_before    \* imd.json when the run (or the call) started

warnVars == <<pw_paragraphs, picked, wpc>>

extractVars == <<document, extracted, xpc>>

saveVars == <<payload_in, spc>>

mainVars ==
    <<script, url_set, imd_json, pc, fetch, om, imd, clock, changed, runs, exit_code,
      snapshot, served, prev_run, file_before>>

vars == <<warnVars, extractVars, saveVars, mainVars>>

(***************************************************************************)
(* Text.  A Python str is a sequence of one-character strings.             *)
(***************************************************************************)

LowerLetters == <<"a","b","c","d","e","f","g","h","i","j","k","l","m","n","o","p","q","r","s",
    "t","u","v","w","x","y","z">>

UpperLetters == <<"A","B","C","D","E","F","G","H","I","J","K","L","M","N","O","P","Q","R","S",
    "T","U","V","W","X","Y","Z">>

Range(f) == {f[i] : i \in DOMAIN f}

\* The characters the regex class \s and str.split()/str.strip() treat as whitespace.
Whitespace == {" ", "\n", "\t"}

IsSpace(c) == c \in Whitespace

\* The regex class [A-Za-z].
Letters == Range(LowerLetters) \cup Range(UpperLetters)

IsLetter(c) == c \in Letters

\* The regex class [.?!].
IsSentenceEnd(c) == c \in {".", "?", "!"}

\* str.lower() on one character.
LowerOf == [i \in DOMAIN UpperLetters |-> <<UpperLetters[i], LowerLetters[i]>>]

LowerMap == [c \in Range(UpperLetters) |-> (CHOOSE p \in Range(LowerOf) : p[1] = c)[2]]

LowerChar(c) == IF c \in DOMAIN LowerMap THEN LowerMap[c] ELSE c

\* str.lower()
Lower(s) == [i \in DOMAIN s |-> LowerChar(s[i])]

\* k in s, for strings k and s
IsSubstring(k, s) ==
    \E i \in 1..(Len(s) - Len(k) + 1) : \A j \in 1..Len(k) : s[i + j - 1] = k[j]

\* str.strip()
Strip(s) ==
    LET keep == {i \in DOMAIN s : ~IsSpace(s[i])}
    IN  IF keep = {} THEN <<>>
        ELSE LET lo == CHOOSE i \in keep : \A j \in keep : i <= j
                 hi == CHOOSE i \in keep : \A j \in keep : j <= i
             IN  SubSeq(s, lo, hi)

\* The indices of s, in order.
Indices(s) == [i \in DOMAIN s |-> i]

\* re.sub(r'\s+', ' ', s): every maximal run of whitespace becomes one space.
CollapseWhitespace(s) ==
    LET keep == SelectSeq(Indices(s),
                    LAMBDA i : ~IsSpace(s[i]) \/ i = 1 \/ ~IsSpace(s[i - 1]))
    IN  [k \in DOMAIN keep |-> IF IsSpace(s[keep[k]]) THEN " " ELSE s[keep[k]]]

\* The maximal runs of characters of one class, in order: class "word" (not
\* whitespace) gives str.split(), class "alpha" gives re.findall(r"[A-Za-z]{1,}", s).
InClass(c, class) == IF class = "word" THEN ~IsSpace(c) ELSE IsLetter(c)

Runs(s, class) ==
    LET first == SelectSeq(Indices(s),
                     LAMBDA i : InClass(s[i], class)
                                /\ (i = 1 \/ ~InClass(s[i - 1], class)))
        last  == SelectSeq(Indices(s),
                     LAMBDA i : InClass(s[i], class)
                                /\ (i = Len(s) \/ ~InClass(s[i + 1], class)))
    IN  [k \in DOMAIN first |-> SubSeq(s, first[k], last[k])]

SplitWords(s) == Runs(s, "word")

AlphaTokens(s) == Runs(s, "alpha")

\* sep.join(parts)
RECURSIVE JoinFrom(_, _, _, _)
JoinFrom(parts, sep, i, acc) ==
    IF i > Len(parts) THEN acc
    ELSE JoinFrom(parts, sep, i + 1,
             IF i = 1 THEN parts[i] ELSE acc \o sep \o parts[i])

Join(sep, parts) == JoinFrom(parts, sep, 1, <<>>)

\* re.split(r'(?<=[.?!])\s+', s): split at each whitespace run that follows a
\* sentence-ending character; the run itself is dropped.
SplitSentences(s) ==
    LET \* where a separating run starts, and where the text resumes after it
        cut    == SelectSeq(Indices(s),
                      LAMBDA i : IsSpace(s[i]) /\ i > 1 /\ IsSentenceEnd(s[i - 1]))
        resume == SelectSeq(Indices(s),
                      LAMBDA i : i > 1 /\ IsSpace(s[i]) /\ (i = Len(s) \/ ~IsSpace(s[i + 1]))
                                 /\ \E c \in Range(cut) :
                                        c <= i /\ \A j \in c..i : IsSpace(s[j]))
    IN  [k \in 1..(Len(cut) + 1) |->
            SubSeq(s, IF k = 1 THEN 1 ELSE resume[k - 1] + 1,
                      IF k = Len(cut) + 1 THEN Len(s) ELSE cut[k] - 1)]

\* s[:n]
Prefix(s, n) == SubSeq(s, 1, IF Len(s) < n THEN Len(s) ELSE n)

(***************************************************************************)
(* Warning selection (fetch_imd_combined.py).                              *)
(***************************************************************************)

KEYWORDS ==
    << <<"w","a","r","n","i","n","g">>, <<"w","a","t","c","h">>, <<"n","o","w","c","a","s","t"
        >>, <<"t","h","u","n","d","e","r","s","t","o","r","m">>, <<"t","h","u","n","d","e","r"
        >>,
       <<"h","e","a","v","y"," ","r","a","i","n">>, <<"h","e","a","v","y"," ","r","a","i","n",
           "f","a","l","l">>, <<"a","l","e","r","t">>, <<"a","d","v","i","s","o","r","y">>, <<
           "l","i","k","e","l","y">>,
       <<"p","o","s","s","i","b","l","e">>, <<"i","s","o","l","a","t","e","d">>, <<"s","e","v",
           "e","r","e">>, <<"s","q","u","a","l","l">>, <<"g","u","s","t">> >>

\* Shortest text that can be a warning (len(paragraph) < 40, len(s) < 40).
MIN_WARNING_LEN == 40

\* Most warnings returned (len(out) >= 8, len(found) >= 8).
MAX_WARNINGS == 8

\* len(words) < 40
NAV_WORD_LIMIT == 40

\* len(w) <= 3
SHORT_WORD_LEN == 3

\* len(t) <= 4
SHORT_TOKEN_LEN == 4

\* len(tokens) < 30
NAV_TOKEN_LIMIT == 30

\* short_words / max(1, len(words)) > 0.55, in hundredths
NAV_SHORT_PERCENT == 55

Max(a, b) == IF a >= b THEN a ELSE b

TooShort(text) == Len(text) < MIN_WARNING_LEN

is_nav_like(paragraph) ==
    IF TooShort(paragraph) THEN TRUE
    ELSE LET words == SplitWords(paragraph)
             short_words == Cardinality({i \in DOMAIN words : Len(words[i]) <= SHORT_WORD_LEN})
             tokens == AlphaTokens(paragraph)
         IN  IF Len(words) < NAV_WORD_LIMIT
                /\ short_words * 100 > NAV_SHORT_PERCENT * Max(1, Len(words))
             THEN TRUE
             ELSE IF tokens # <<>>
                     /\ (\A i \in DOMAIN tokens : Len(tokens[i]) <= SHORT_TOKEN_LEN)
                     /\ Len(tokens) < NAV_TOKEN_LIMIT
                  THEN TRUE
                  ELSE FALSE

contains_keywords(paragraph) ==
    LET low == Lower(paragraph)
    IN  \E k \in DOMAIN KEYWORDS : IsSubstring(KEYWORDS[k], low)

CapReachedOffByOne(out) == Len(out) > MAX_WARNINGS

\* The loop guards "if len(out) >= 8: break" and "if len(found) >= 8: break".
CapReached(out) == Len(out) >= MAX_WARNINGS

IsCandidateKeywordOnly(p) == contains_keywords(p)

\* Lines 97-99: what the first pass keeps.
IsCandidate(p) ==
    IF is_nav_like(p) THEN FALSE
    ELSE contains_keywords(p) /\ Len(p) >= MIN_WARNING_LEN

AlreadySeenNever(c, seen) == FALSE

\* if c in seen: continue
AlreadySeen(c, seen) == c \in seen

\* p = re.sub(r'\s+', ' ', p).strip()
NormalizeParagraph(p) == Strip(CollapseWhitespace(p))

\* First pass, lines 95-100: the normalized paragraphs that are not
\* navigation-like and hold a keyword.
RECURSIVE CandidatesFrom(_, _, _)
CandidatesFrom(paragraphs, i, candidates) ==
    IF i > Len(paragraphs) THEN candidates
    ELSE LET p == NormalizeParagraph(paragraphs[i])
         IN  IF IsCandidate(p)
             THEN CandidatesFrom(paragraphs, i + 1, Append(candidates, p))
             ELSE CandidatesFrom(paragraphs, i + 1, candidates)

\* Lines 103-108: the loop over the candidates.  examined counts the loop's
\* iterations.
RECURSIVE DedupFrom(_, _, _, _)
DedupFrom(candidates, i, seen, out) ==
    IF i > Len(candidates) THEN [out |-> out, examined |-> i - 1]
    ELSE LET c == candidates[i]
         IN  IF AlreadySeen(c, seen) THEN DedupFrom(candidates, i + 1, seen, out)
             ELSE LET out2 == Append(out, c)
                  IN  IF CapReached(out2) THEN [out |-> out2, examined |-> i]
                      ELSE DedupFrom(candidates, i + 1, seen \cup {c}, out2)

\* Lines 113-121: the loop over the sentences.
RECURSIVE SentenceScanFrom(_, _, _)
SentenceScanFrom(sentences, i, found) ==
    IF i > Len(sentences) THEN [out |-> found, examined |-> i - 1]
    ELSE LET s == Strip(sentences[i])
         IN  IF TooShort(s) THEN SentenceScanFrom(sentences, i + 1, found)
             ELSE LET cleaned == CollapseWhitespace(s)
                      found2 == IF contains_keywords(s) /\ cleaned \notin Range(found)
                                THEN Append(found, cleaned)
                                ELSE found
                  IN  IF CapReached(found2) THEN [out |-> found2, examined |-> i]
                      ELSE SentenceScanFrom(sentences, i + 1, found2)

ParagraphSeparator == <<"\n","\n">>

\* The run of pick_warnings: the list it returns (out), the pass that produced
\* it, the items that pass's loop had to scan (items) and how many of them it
\* examined before it ended.
pick_warnings_run(paragraphs) ==
    LET candidates == CandidatesFrom(paragraphs, 1, <<>>)
    IN  IF candidates # <<>>
        THEN LET r == DedupFrom(candidates, 1, {}, <<>>)
             IN  [out |-> r.out, pass |-> "paragraph", items |-> candidates,
                  examined |-> r.examined]
        ELSE LET text == Join(ParagraphSeparator, paragraphs)
                 sentences == SplitSentences(text)
                 r == SentenceScanFrom(sentences, 1, <<>>)
             IN  [out |-> r.out, pass |-> "sentence", items |-> sentences,
                  examined |-> r.examined]

pick_warnings(paragraphs) == pick_warnings_run(paragraphs).out

(***************************************************************************)
(* Content extraction (fetch_imd_combined.py).  A parsed document is the   *)
(* sequence of its elements in document order; each element names its tag, *)
(* its id, its class, the text it holds directly (before its children) and *)
(* its parent (0: a child of the document root).                           *)
(***************************************************************************)

\* soup(["script","style","nav",...]): the tags removed before extraction.
NOISY_TAGS ==
    {"script", "style", "nav", "header", "footer", "form", "noscript", "iframe",
     "aside", "svg", "canvas"}

\* The selectors tried, in order.
SELECTORS_ContentFirst == <<"#content", "article", "section", "main", ".content">>

SELECTORS == <<"main", "article", "section", "#content", ".content">>

\* find_all(["p","div","li","h2","h3"])
BLOCK_TAGS == {"p", "div", "li", "h2", "h3"}

\* The ancestors of element n, n included.
RECURSIVE AncestorsOrSelf(_, _)
AncestorsOrSelf(doc, n) ==
    IF n = 0 THEN {} ELSE {n} \cup AncestorsOrSelf(doc, doc[n].parent)

\* n lies inside element e (n is not e).
IsInside(doc, n, e) == n # e /\ e \in AncestorsOrSelf(doc, n)

\* The elements left after every noisy element is decomposed with its subtree.
Remaining(doc) ==
    {n \in DOMAIN doc : \A a \in AncestorsOrSelf(doc, n) : doc[a].tag \notin NOISY_TAGS}

\* A CSS selector of SELECTORS matched against one element.
Matches(el, selector) ==
    IF selector = "#content" THEN el.id = "content"
    ELSE IF selector = ".content" THEN el.class = "content"
         ELSE el.tag = selector

\* soup.select_one(selector): the first matching element in document order, or
\* 0 (None).
select_one(doc, alive, selector) ==
    LET hits == {n \in alive : Matches(doc[n], selector)}
    IN  IF hits = {} THEN 0 ELSE CHOOSE n \in hits : \A m \in hits : n <= m

\* The elements of a set, in document order.
InOrder(doc, set) == SelectSeq(Indices(doc), LAMBDA n : n \in set)

SingleSpace == <<" ">>

\* el.get_text(sep, strip=True): the stripped, non-empty text pieces of the
\* element and of the elements inside it, in document order, joined by sep.
get_text(doc, alive, el, sep) ==
    LET within == InOrder(doc, {n \in alive : n = el \/ IsInside(doc, n, el)})
        pieces == SelectSeq([k \in DOMAIN within |-> Strip(doc[within[k]].text)],
                            LAMBDA t : t # <<>>)
    IN  Join(sep, pieces)

\* [p.get_text(" ", strip=True) for p in scope if p.get_text(strip=True)] over
\* the block elements of a scope, with the element each text comes from.
BlocksOf(doc, alive, scope) ==
    LET found == InOrder(doc, {n \in scope : doc[n].tag \in BLOCK_TAGS})
        kept  == SelectSeq(found, LAMBDA n : get_text(doc, alive, n, <<>>) # <<>>)
    IN  [k \in DOMAIN kept |->
            [node |-> kept[k], text |-> get_text(doc, alive, kept[k], SingleSpace)]]

\* Lines 62-68: the loop over the selectors, from the i-th on; lines 70-71 after
\* it.  region is the element whose blocks are returned (0: the whole document).
RECURSIVE TrySelectors(_, _, _)
TrySelectors(doc, alive, i) ==
    IF i > Len(SELECTORS)
    THEN [region |-> 0, blocks |-> BlocksOf(doc, alive, alive)]
    ELSE LET el == select_one(doc, alive, SELECTORS[i])
         IN  IF el # 0
             THEN LET paras == BlocksOf(doc, alive, {n \in alive : IsInside(doc, n, el)})
                  IN  IF paras # <<>> THEN [region |-> el, blocks |-> paras]
                      ELSE TrySelectors(doc, alive, i + 1)
             ELSE TrySelectors(doc, alive, i + 1)

\* The run of extract_visible_paragraphs on a parsed document.
extract_run(doc) == TrySelectors(doc, Remaining(doc), 1)

extract_visible_paragraphs(doc) ==
    LET r == extract_run(doc) IN [k \in DOMAIN r.blocks |-> r.blocks[k].text]

(***************************************************************************)
(* JSON values and the snapshot file.  A value is a record with a type tag *)
(* t and a content v; an object's content is the sequence of its           *)
(* <<key, value>> pairs in insertion order (the order json.dump writes and  *)
(* json.load restores).                                                    *)
(***************************************************************************)

JNull == [t |-> "null", v |-> 0]

\* A string kept as one name.
JStr(s) == [t |-> "str", v |-> s]

\* A string kept as its characters.
JText(s) == [t |-> "text", v |-> s]

JNum(n) == [t |-> "num", v |-> n]

JArr(a) == [t |-> "arr", v |-> a]

JObj(kv) == [t |-> "obj", v |-> kv]

\* Python's None, as json.load returns it for the text null.
None == JNull

\* The keys of the snapshots, in the order sort_keys=True puts them (the order of
\* Python strings).
SortedKeys ==
    << "bengaluru", "district_key_matched", "extracted_text", "fetched_at", "hourly",
       "imd_bengaluru", "latitude", "location", "longitude", "name", "open_meteo",
       "source_type", "source_url", "warnings" >>

KeyRank(k) == CHOOSE i \in DOMAIN SortedKeys : SortedKeys[i] = k

\* The pairs of an object, sorted by key.
SortPairs(kv) ==
    [i \in DOMAIN kv |->
        CHOOSE p \in Range(kv) :
            Cardinality({q \in Range(kv) : KeyRank(q[1]) < KeyRank(p[1])}) = i - 1]

KeepPairs(kv) == kv

\* The order in which json.dumps(..., sort_keys=True) writes an object's pairs.
DumpOrder(kv) == SortPairs(kv)

\* json.dumps(value, sort_keys=True, ensure_ascii=False): the text written is
\* the value with the pairs of every object in key order, so two such texts are
\* equal exactly when the values below are.
RECURSIVE dumps_sorted(_)
dumps_sorted(value) ==
    IF value.t = "obj"
    THEN LET kv == DumpOrder(value.v)
         IN  JObj([i \in DOMAIN kv |-> <<kv[i][1], dumps_sorted(kv[i][2])>>])
    ELSE IF value.t = "arr"
         THEN JArr([i \in DOMAIN value.v |-> dumps_sorted(value.v[i])])
         ELSE value

\* The file imd.json: absent, or present with a text that is not JSON, or
\* present with the text of a JSON value.
NoFile == [exists |-> FALSE, json |-> FALSE, doc |-> JNull]

GarbageFile == [exists |-> TRUE, json |-> FALSE, doc |-> JNull]

\* json.dump(payload, f, ensure_ascii=False, indent=2) into a file opened "w".
WrittenFile(payload) == [exists |-> TRUE, json |-> TRUE, doc |-> payload]

\* load_existing / load_existing_imd
load_existing(f) ==
    IF ~f.exists THEN None
    ELSE IF f.json THEN f.doc   \* json.load(f)
         ELSE None              \* except Exception: return None

\* save_if_changed: the file after the call and the value returned.
save_if_changed(f, payload) ==
    LET existing == load_existing(f)
    IN  IF existing # None /\ dumps_sorted(existing) = dumps_sorted(payload)
        THEN [file |-> f, changed |-> FALSE]
        ELSE [file |-> WrittenFile(payload), changed |-> TRUE]

(***************************************************************************)
(* HTTP fetch with retries (both scripts).  which is "combined" for        *)
(* fetch_imd_combined.py and "bengaluru" for fetch_imd_bengaluru.py.       *)
(***************************************************************************)

MAX_RETRIES == 3

\* backoff = 2 (fetch_imd_combined.py)
COMBINED_BACKOFF == 2

\* INITIAL_BACKOFF = 3 (fetch_imd_bengaluru.py)
INITIAL_BACKOFF == 3

InitialBackoff(which) == IF which = "combined" THEN COMBINED_BACKOFF ELSE INITIAL_BACKOFF

\* The classes of requests.exceptions.RequestException raised here.
RequestExceptions == {"ConnectionError", "HTTPError"}

\* The classes of Exception raised here.  SystemExit derives from BaseException
\* and is not one of them.
Exceptions == RequestExceptions \cup {"ValueError"}

\* What the except clause of fetch_with_retries catches:
\* "except Exception" (combined), "except requests.exceptions.RequestException"
\* (bengaluru).
FetchCatches(which) == IF which = "combined" THEN Exceptions ELSE RequestExceptions

\* What "except Exception" in main catches.
MainCatches == Exceptions

Returned == [kind |-> "return", exc |-> "none"]

Raised(e) == [kind |-> "raise", exc |-> e]

FallThrough == [kind |-> "pass", exc |-> "none"]

\* Response.raise_for_status(): HTTPError for a 4xx or 5xx status.
raise_for_status(status) ==
    IF 400 <= status /\ status < 600 THEN Raised("HTTPError") ELSE FallThrough

\* The body of the try block for one answer of requests.get: a response with a
\* status, or a network error (connection failure, timeout).
TryRequest(which, resp) ==
    IF resp.error THEN Raised("ConnectionError")
    ELSE IF which = "combined"
         THEN IF 200 <= resp.status /\ resp.status < 300 THEN Returned
              ELSE IF resp.status \in {401, 429} THEN Raised("HTTPError")
                   ELSE IF 500 <= resp.status /\ resp.status < 600 THEN FallThrough
                        ELSE raise_for_status(resp.status)
         ELSE IF resp.status = 429 THEN raise_for_status(resp.status)
              ELSE IF 200 <= resp.status /\ resp.status < 300 THEN Returned
                   ELSE IF 500 <= resp.status /\ resp.status < 600 THEN FallThrough
                        ELSE raise_for_status(resp.status)

NextBackoffSame(backoff) == backoff

\* backoff *= 2
NextBackoff(backoff) == backoff * 2

\* A call of fetch_with_retries: state is "idle" (not called), "running" (in the
\* loop), "returned" or "raised"; log holds the answers to the requests issued,
\* sleeps the durations slept, in order.
IdleFetch ==
    [state |-> "idle", backoff |-> 0, log |-> <<>>, sleeps |-> <<>>,
     body |-> "none", exc |-> "none"]

StartFetch(which) ==
    [state |-> "running", backoff |-> InitialBackoff(which), log |-> <<>>,
     sleeps |-> <<>>, body |-> "none", exc |-> "none"]

\* One iteration of "for attempt in range(1, MAX_RETRIES + 1)" with the answer
\* resp to its request, and the raise after the loop when it was the last one.
FetchIteration(which, f, resp) ==
    LET attempt == Len(f.log) + 1
        logged  == [f EXCEPT !.log = Append(f.log, resp)]
        tried   == TryRequest(which, resp)
    IN  IF tried.kind = "return"
        THEN [logged EXCEPT !.state = "returned", !.body = resp.body]
        ELSE IF tried.kind = "raise" /\ tried.exc \notin FetchCatches(which)
             THEN [logged EXCEPT !.state = "raised", !.exc = tried.exc]
             ELSE LET slept ==
                          IF attempt < MAX_RETRIES
                          THEN [logged EXCEPT !.sleeps = Append(f.sleeps, f.backoff),
                                              !.backoff = NextBackoff(f.backoff)]
                          ELSE logged
                  IN  IF attempt < MAX_RETRIES THEN slept
                      ELSE [slept EXCEPT !.state = "raised", !.exc = "SystemExit"]

(***************************************************************************)
(* The upstream sources.  A 2xx response carries one of three bodies; what *)
(* a body holds depends on the reader: r.json() or r.text.                 *)
(***************************************************************************)

Bodies == {"A", "B", "junk"}

\* The statuses tried besides 200.
OtherStatuses == {304, 401, 404, 429, 503}

Responses ==
    {[error |-> TRUE, status |-> 0, body |-> "none"]}
    \cup {[error |-> FALSE, status |-> s, body |-> "none"] : s \in OtherStatuses}
    \cup {[error |-> FALSE, status |-> 200, body |-> b] : b \in Bodies}

\* r.json(): bodies A and B are JSON objects, body junk is not JSON (r.json()
\* raises a ValueError).
IsJson(body) == body # "junk"

JsonOf(body) == JObj(<< <<"hourly", JStr(body)>> >>)

Element(tag, id, class, text, parent) ==
    [tag |-> tag, id |-> id, class |-> class, text |-> text, parent |-> parent]

\* r.text parsed by BeautifulSoup: body A is a page with a menu and a main
\* region of three paragraphs, body B a page with a content division of two
\* paragraphs, body junk a page without elements.
HtmlOf(body) ==
    IF body = "A"
    THEN << Element("nav", "", "", <<>>, 0),
            Element("li", "", "", <<"H","e","a","v","y"," ","r","a","i","n","f","a","l","l"," ",
                "w","a","r","n","i","n","g"," ","a","r","c","h","i","v","e">>, 1),
            Element("main", "", "", <<>>, 0),
            Element("p", "", "", <<"H","e","a","v","y"," ","r","a","i","n","f","a","l","l"," ",
                "w","a","r","n","i","n","g"," ","i","s","s","u","e","d"," ","f","o","r"," ","B",
                "e","n","g","a","l","u","r","u",".">>, 3),
            Element("p", "", "", <<"T","e","m","p","e","r","a","t","u","r","e"," ","r","e","m",
                "a","i","n","e","d"," ","n","o","r","m","a","l"," ","a","c","r","o","s","s"," ",
                "t","h","e"," ","s","t","a","t","e",".">>, 3),
            Element("p", "", "", <<"H","e","a","v","y"," "," ","r","a","i","n","f","a","l","l",
                " ","w","a","r","n","i","n","g"," ","i","s","s","u","e","d","\n","f","o","r",
                " ","B","e","n","g","a","l","u","r","u",".">>, 3) >>
    ELSE IF body = "B"
         THEN << Element("div", "", "content", <<>>, 0),
                 Element("p", "", "", <<"T","h","u","n","d","e","r","s","t","o","r","m"," ","l",
                     "i","k","e","l","y"," ","o","v","e","r"," ","s","o","u","t","h"," ","K",
                     "a","r","n","a","t","a","k","a"," ","t","o","d","a","y",".">>, 1),
                 Element("h2", "", "", <<"H","o","m","e"," ","|"," ","A","b","o","u","t"," ",
                     "|"," ","C","o","n","t","a","c","t">>, 1) >>
         ELSE <<>>

(***************************************************************************)
(* main of fetch_imd_combined.py and main of fetch_imd_bengaluru.py.       *)
(***************************************************************************)

\* paras[:20]
EXTRACT_PARAGRAPHS == 20

\* [:20000]
EXTRACT_CHARS == 20000

\* The configured page (IMD_BENGALURU_PAGE, IMD_SOURCE_URL).
SourceUrl == JStr("IMD_PAGE")

\* fetch_imd_bengaluru, lines 146-151, on the text of the response.
ImdOf(body) ==
    LET paras == extract_visible_paragraphs(HtmlOf(body))
        warnings == pick_warnings(paras)
        extracted_text == Prefix(Join(ParagraphSeparator, Prefix(paras, EXTRACT_PARAGRAPHS)),
                            EXTRACT_CHARS)
    IN  JObj(<< <<"source_url", SourceUrl>>,
                <<"warnings", JArr([k \in DOMAIN warnings |-> JText(warnings[k])])>>,
                <<"extracted_text", JText(extracted_text)>> >>)

\* Line 165: the value main puts in place of a failed IMD fetch.
ImdDefault ==
    JObj(<< <<"source_url", SourceUrl>>, <<"warnings", JArr(<<>>)>>,
            <<"extracted_text", JText(<<>>)>> >>)

\* om = {}
OmDefault == JObj(<<>>)

\* now_iso() / pretty_now_iso() at time now.
now_iso(now) == [t |-> "time", v |-> now]

\* LAT and LON (defaults 12.9896 and 77.6387), in ten-thousandths.
LAT == 129896

LON == 776387

Location ==
    JObj(<< <<"name", JStr("Aerospace Park, Bangalore")>>, <<"latitude", JNum(LAT)>>,
            <<"longitude", JNum(LON)>> >>)

\* Lines 167-172: the snapshot of fetch_imd_combined.py.
CombinedSnapshot(now, om_value, imd_value) ==
    JObj(<< <<"fetched_at", now_iso(now)>>, <<"location", Location>>,
            <<"open_meteo", om_value>>, <<"imd_bengaluru", imd_value>> >>)

\* Lines 188-222: the snapshot of fetch_imd_bengaluru.py.  The fields derived
\* from the response (the matched district entry, or the text read from HTML)
\* depend on the body alone; the body's name stands for them.
BengaluruSnapshot(now, body) ==
    JObj(<< <<"fetched_at", now_iso(now)>>, <<"source_url", SourceUrl>>,
            <<"source_type", JStr(IF IsJson(body) THEN "json" ELSE "html")>>,
            <<"district_key_matched", IF IsJson(body) THEN JStr(body) ELSE JNull>>,
            <<"bengaluru", IF IsJson(body) THEN JsonOf(body) ELSE JNull>> >>)

(***************************************************************************)
(* The values the variables of a function hold before it has run.          *)
(***************************************************************************)

NotPicked == [out |-> <<>>, pass |-> "none", items |-> <<>>, examined |-> 0]

NotExtracted == [region |-> 0, blocks |-> <<>>]

NothingServed == [om |-> "none", imd |-> "none", src |-> "none"]

NoRun == [complete |-> FALSE, served |-> NothingServed]

MainIdle ==
    /\ script = "none" /\ url_set = FALSE /\ pc = "idle" /\ fetch = IdleFetch
    /\ om = OmDefault /\ imd = ImdDefault /\ clock = 0 /\ changed = "none"
    /\ runs = 0 /\ exit_code = 0 /\ snapshot = JNull /\ served = NothingServed
    /\ prev_run = NoRun /\ file_before = NoFile

(***************************************************************************)
(* SpecWarn: pick_warnings applied to paragraph lists.                     *)
(***************************************************************************)

\* A page with warnings: ten warning paragraphs, then a menu line, a copy of the
\* first warning with other whitespace, a paragraph without keywords and a
\* navigation-like line that holds a keyword.
PagePool ==
    << <<"H","e","a","v","y"," ","r","a","i","n","f","a","l","l"," ","w","a","r","n","i","n",
        "g"," ","i","s","s","u","e","d"," ","f","o","r"," ","B","e","n","g","a","l","u","r","u",
        ".">>,
       <<"T","h","u","n","d","e","r","s","t","o","r","m"," ","l","i","k","e","l","y"," ","o",
           "v","e","r"," ","s","o","u","t","h"," ","K","a","r","n","a","t","a","k","a"," ","t",
           "o","d","a","y",".">>,
       <<"S","e","v","e","r","e"," ","s","q","u","a","l","l"," ","a","l","e","r","t"," ","f",
           "o","r"," ","c","o","a","s","t","a","l"," ","d","i","s","t","r","i","c","t","s"," ",
           "n","o","w",".">>,
       <<"I","s","o","l","a","t","e","d"," ","h","e","a","v","y"," ","r","a","i","n"," ","p",
           "o","s","s","i","b","l","e"," ","o","v","e","r"," ","M","y","s","u","r","u"," ","r",
           "e","g","i","o","n",".">>,
       <<"N","o","w","c","a","s","t",":"," ","g","u","s","t","y"," ","w","i","n","d","s"," ",
           "e","x","p","e","c","t","e","d"," ","w","i","t","h","i","n"," ","t","h","r","e","e",
           " ","h","o","u","r","s",".">>,
       <<"A","d","v","i","s","o","r","y"," ","i","s","s","u","e","d"," ","f","o","r"," ","f",
           "i","s","h","e","r","m","e","n"," ","a","l","o","n","g"," ","t","h","e"," ","c","o",
           "a","s","t",".">>,
       <<"Y","e","l","l","o","w"," ","w","a","t","c","h"," ","d","e","c","l","a","r","e","d",
           " ","f","o","r"," ","n","o","r","t","h","e","r","n"," ","d","i","s","t","r","i","c",
           "t","s",".">>,
       <<"G","U","S","T"," ","s","p","e","e","d","s"," ","r","e","a","c","h","i","n","g"," ",
           "s","i","x","t","y"," ","k","m","p","h"," ","a","r","e"," ","e","x","p","e","c","t",
           "e","d",".">>,
       <<"L","i","g","h","t","n","i","n","g"," ","a","l","e","r","t"," ","c","o","n","t","i",
           "n","u","e","s"," ","f","o","r"," ","K","o","l","a","r"," ","d","i","s","t","r","i",
           "c","t",".">>,
       <<"T","h","u","n","d","e","r"," ","s","h","o","w","e","r","s"," ","p","o","s","s","i",
           "b","l","e"," ","a","c","r","o","s","s"," ","T","u","m","a","k","u","r","u"," ","b",
           "e","l","t",".">>,
       <<"H","o","m","e"," ","|"," ","A","b","o","u","t"," ","|"," ","C","o","n","t","a","c",
           "t"," ","|"," ","S","e","r","v","i","c","e","s">>,
       <<"H","e","a","v","y"," "," ","r","a","i","n","f","a","l","l"," ","w","a","r","n","i",
           "n","g"," ","i","s","s","u","e","d","\n","f","o","r"," ","B","e","n","g","a","l","u",
           "r","u",".">>,
       <<"T","e","m","p","e","r","a","t","u","r","e"," ","r","e","m","a","i","n","e","d"," ",
           "n","o","r","m","a","l"," ","a","c","r","o","s","s"," ","t","h","e"," ","w","h","o",
           "l","e"," ","s","t","a","t","e",".">>,
       <<"G","o"," ","t","o"," ","t","h","e"," ","a","l","e","r","t"," ","m","a","p"," ","o",
           "r"," ","t","o"," ","t","h","e"," ","t","o","p"," ","o","f"," ","t","h","e"," ","p",
           "a","g","e"," ","n","o","w",".">> >>

\* A page whose paragraphs all fail the first pass: lines of short words, two
\* fragments of one sentence, and a paragraph of two sentences.
MenuPool ==
    << <<"G","u","s","t"," ","a","n","d"," ","h","a","i","l"," ","r","i","s","k"," ","o","v",
        "e","r"," ","e","a","s","t"," ","z","o","n","e"," ","f","r","o","m"," ","n","o","o","n",
        " ","t","i","l","l"," ","n","i","n","e",".">>,
       <<"G","u","s","t"," ","a","n","d"," ","h","a","i","l"," ","r","i","s","k"," ","o","v",
           "e","r"," ","w","e","s","t"," ","z","o","n","e"," ","f","r","o","m"," ","n","o","o",
           "n"," ","t","i","l","l"," ","n","i","n","e",".">>,
       <<"G","u","s","t"," ","m","a","y"," ","h","i","t"," ","t","h","e"," ","d","a","m"," ",
           "r","o","a","d"," ","b","y"," ","f","o","u","r",","," ","s","o"," ","p","l","a","n",
           " ","y","o","u","r"," ","t","r","i","p",".">>,
       <<"G","u","s","t"," ","n","e","a","r"," ","t","h","e"," ","l","a","k","e"," ","w","i",
           "l","l"," ","p","e","a","k"," ","a","t"," ","n","o","o","n"," ","a","n","d"," ","e",
           "a","s","e"," ","b","y"," ","s","i","x",".">>,
       <<"W","i","n","d"," ","g","u","s","t"," ","d","a","t","a"," ","f","o","r"," ","e","a",
           "c","h"," ","z","o","n","e"," ","i","s"," ","k","e","p","t"," ","f","o","r"," ","o",
           "n","e"," ","w","e","e","k",".">>,
       <<"R","a","i","n"," ","a","n","d"," ","g","u","s","t"," ","m","a","p",":"," ","t","a",
           "p"," ","h","e","r","e"," ","t","o"," ","o","p","e","n"," ","t","h","e"," ","f","u",
           "l","l"," ","v","i","e","w","!">>,
       <<"T","a","k","e"," ","c","a","r","e"," ","o","n"," ","t","h","e"," ","r","o","a","d",
           ","," ","a","s"," ","a"," ","g","u","s","t"," ","c","a","n"," ","f","l","i","p"," ",
           "a"," ","v","a","n"," ","o","r"," ","b","u","s",".">>,
       <<"G","u","s","t"," ","a","n","d"," ","d","u","s","t"," ","m","a","y"," ","c","u","t",
           " ","t","h","e"," ","v","i","e","w"," ","d","o","w","n"," ","t","o"," ","z","e","r",
           "o"," ","a","t"," ","d","u","s","k",".">>,
       <<"G","u","s","t"," ","f","r","o","m"," ","t","h","e"," ","w","e","s","t"," ","w","i",
           "l","l"," ","v","e","e","r"," ","e","a","s","t"," ","l","a","t","e"," ","t","h","i",
           "s"," ","w","e","e","k",".">>,
       <<"H","e","a","v","y"," ","r","a","i","n"," ","a","l","e","r","t">>,
       <<"i","n"," ","t","h","e"," ","s","o","u","t","h"," ","z","o","n","e"," ","n","o","w","."
           >>,
       <<"I","t"," ","i","s"," ","h","o","t","."," "," ","G","u","s","t"," ","a","n","d","\t",
           "h","a","i","l"," ","r","i","s","k"," ","o","v","e","r"," ","w","e","s","t"," ","z",
           "o","n","e"," ","f","r","o","m"," ","n","o","o","n",".">>,
       <<"G","o"," ","t","o"," ","t","h","e"," ","a","l","e","r","t"," ","m","a","p"," ","o",
           "r"," ","t","o"," ","t","h","e"," ","t","o","p"," ","o","f"," ","t","h","e"," ","p",
           "a","g","e"," ","n","o","w",".">>,
       <<"H","o","m","e"," ","|"," ","A","b","o","u","t"," ","|"," ","C","o","n","t","a","c",
           "t"," ","|"," ","S","e","r","v","i","c","e","s">> >>

Pools == <<PagePool, MenuPool>>

\* Longest paragraph list tried.
MaxParagraphs == 9

\* Largest step between the pool entries taken (0 repeats one entry).
MaxStride == 2

\* len entries of a pool, from entry start on, every stride-th, wrapping around.
Window(pool, start, stride, len) ==
    [i \in 1..len |-> pool[((start - 1 + (i - 1) * stride) % Len(pool)) + 1]]

ParagraphLists ==
    {Window(Pools[p], start, stride, len) :
        p \in DOMAIN Pools, start \in 1..Len(PagePool),
        stride \in 0..MaxStride, len \in 0..MaxParagraphs}

WarnInit ==
    /\ pw_paragraphs \in ParagraphLists
    /\ picked = NotPicked
    /\ wpc = "input"
    /\ document = <<>> /\ extracted = NotExtracted /\ xpc = "idle"
    /\ payload_in = JNull /\ spc = "idle"
    /\ imd_json = NoFile
    /\ MainIdle

PickWarnings ==
    /\ wpc = "input"
    /\ picked' = pick_warnings_run(pw_paragraphs)
    /\ wpc' = "done"
    /\ UNCHANGED <<pw_paragraphs, extractVars, saveVars, mainVars>>

WarnNext == PickWarnings

SpecWarn == WarnInit /\ [][WarnNext]_vars

(***************************************************************************)
(* SpecExtract: extract_visible_paragraphs applied to small documents.     *)
(***************************************************************************)

\* Most elements in a document tried.
MaxElements == 3

\* The text of the n-th element when it holds a word.
WordOf(n) == <<"w", LowerLetters[n]>>

\* The shapes of element tried: the five regions (the two div regions also
\* with a word of their own), a removed tag, and block elements with a word or
\* with whitespace only.
ElementShapes(n) ==
    {[tag |-> t, id |-> "", class |-> "", text |-> <<>>] :
         t \in {"main", "article", "section", "nav"}}
    \cup {[tag |-> "div", id |-> "content", class |-> "", text |-> <<>>],
          [tag |-> "div", id |-> "", class |-> "content", text |-> <<>>],
          [tag |-> "div", id |-> "content", class |-> "", text |-> WordOf(n)],
          [tag |-> "div", id |-> "", class |-> "content", text |-> WordOf(n)],
          [tag |-> "div", id |-> "", class |-> "", text |-> WordOf(n)],
          [tag |-> "p", id |-> "", class |-> "", text |-> WordOf(n)],
          [tag |-> "p", id |-> "", class |-> "", text |-> SingleSpace]}

WithParent(shape, p) ==
    [tag |-> shape.tag, id |-> shape.id, class |-> shape.class, text |-> shape.text,
     parent |-> p]

\* The documents of n elements: element k is a child of the root or of an
\* element open when it starts (the element before it, or one of its ancestors).
RECURSIVE Documents(_)
Documents(n) ==
    IF n = 0 THEN {<<>>}
    ELSE {Append(d, WithParent(s, p)) :
             d \in Documents(n - 1), s \in ElementShapes(n),
             p \in {0} \cup (1..(n - 1))}

WellFormed(doc) ==
    \A n \in DOMAIN doc :
        doc[n].parent = 0 \/ (n > 1 /\ doc[n].parent \in AncestorsOrSelf(doc, n - 1))

ExtractInit ==
    /\ \E n \in 0..MaxElements : document \in {d \in Documents(n) : WellFormed(d)}
    /\ extracted = NotExtracted
    /\ xpc = "input"
    /\ pw_paragraphs = <<>> /\ picked = NotPicked /\ wpc = "idle"
    /\ payload_in = JNull /\ spc = "idle"
    /\ imd_json = NoFile
    /\ MainIdle

ExtractVisibleParagraphs ==
    /\ xpc = "input"
    /\ extracted' = extract_run(document)
    /\ xpc' = "done"
    /\ UNCHANGED <<document, warnVars, saveVars, mainVars>>

ExtractNext == ExtractVisibleParagraphs

SpecExtract == ExtractInit /\ [][ExtractNext]_vars

(***************************************************************************)
(* Spec: runs of the two scripts against the upstream sources and the      *)
(* snapshot file.                                                          *)
(***************************************************************************)

\* Most runs of a script in a row.
MaxRuns == 2

\* The snapshot files a first run may find: none, one that is not JSON, and one
\* an earlier run wrote at time 0.
EarlierFiles(s) ==
    {NoFile, GarbageFile,
     WrittenFile(IF s = "combined" THEN CombinedSnapshot(0, JsonOf("A"), ImdDefault)
                 ELSE BengaluruSnapshot(0, "A"))}

MainInit ==
    /\ script \in {"combined", "bengaluru"}
    /\ url_set \in (IF script = "bengaluru" THEN BOOLEAN ELSE {TRUE})
    /\ imd_json \in EarlierFiles(script)
    /\ file_before = imd_json
    /\ pc = "start"
    /\ fetch = IdleFetch
    /\ om = OmDefault
    /\ imd = ImdDefault
    /\ clock = 0
    /\ changed = "none"
    /\ runs = 1
    /\ exit_code = 0
    /\ snapshot = JNull
    /\ served = NothingServed
    /\ prev_run = NoRun
    /\ pw_paragraphs = <<>> /\ picked = NotPicked /\ wpc = "idle"
    /\ document = <<>> /\ extracted = NotExtracted /\ xpc = "idle"
    /\ payload_in = JNull /\ spc = "idle"

\* The script starts: main up to its first fetch.  fetch_imd_bengaluru.py exits
\* with status 1 when IMD_SOURCE_URL is not set.
Start ==
    /\ pc = "start"
    /\ IF script = "bengaluru" /\ ~url_set
       THEN /\ pc' = "exited"
            /\ exit_code' = 1
            /\ UNCHANGED fetch
       ELSE /\ pc' = (IF script = "combined" THEN "om_fetch" ELSE "src_fetch")
            /\ fetch' = StartFetch(script)
            /\ UNCHANGED exit_code
    /\ UNCHANGED <<script, url_set, imd_json, om, imd, clock, changed, runs, snapshot,
                   served, prev_run, file_before, warnVars, extractVars, saveVars>>

\* One iteration of the loop of fetch_with_retries: the request is answered.
Request ==
    /\ pc \in {"om_fetch", "imd_fetch", "src_fetch"}
    /\ fetch.state = "running"
    /\ \E resp \in Responses : fetch' = FetchIteration(script, fetch, resp)
    /\ UNCHANGED <<script, url_set, imd_json, pc, om, imd, clock, changed, runs,
                   exit_code, snapshot, served, prev_run, file_before, warnVars,
                   extractVars, saveVars>>

\* What a call that wraps fetch_with_retries raises, given what it does with the
\* response: "none" when it returns.
RaisedBy(f, reads_json) ==
    IF f.state = "raised" THEN f.exc
    ELSE IF reads_json /\ ~IsJson(f.body) THEN "ValueError"
         ELSE "none"

\* Lines 155-159: fetch_open_meteo ends, inside try/except Exception.
OmFetchEnds ==
    /\ pc = "om_fetch"
    /\ fetch.state \in {"returned", "raised"}
    /\ LET exc == RaisedBy(fetch, TRUE)
       IN  IF exc = "none" \/ exc \in MainCatches
           THEN /\ om' = (IF exc = "none" THEN JsonOf(fetch.body) ELSE OmDefault)
                /\ pc' = "imd_fetch"
                /\ fetch' = StartFetch(script)
                /\ UNCHANGED exit_code
           ELSE /\ pc' = "exited"
                /\ exit_code' = 1
                /\ UNCHANGED <<om, fetch>>
    /\ served' = [served EXCEPT !.om = fetch.body]
    /\ UNCHANGED <<script, url_set, imd_json, imd, clock, changed, runs, snapshot,
                   prev_run, file_before, warnVars, extractVars, saveVars>>

\* Lines 160-165: fetch_imd_bengaluru ends, inside try/except Exception.
ImdFetchEnds ==
    /\ pc = "imd_fetch"
    /\ fetch.state \in {"returned", "raised"}
    /\ LET exc == RaisedBy(fetch, FALSE)
       IN  IF exc = "none" \/ exc \in MainCatches
           THEN /\ imd' = (IF exc = "none" THEN ImdOf(fetch.body) ELSE ImdDefault)
                /\ pc' = "save"
                /\ UNCHANGED exit_code
           ELSE /\ pc' = "exited"
                /\ exit_code' = 1
                /\ UNCHANGED imd
    /\ served' = [served EXCEPT !.imd = fetch.body]
    /\ UNCHANGED <<script, url_set, imd_json, fetch, om, clock, changed, runs, snapshot,
                   prev_run, file_before, warnVars, extractVars, saveVars>>

\* fetch_imd_bengaluru.py, line 185: fetch_with_retries ends; nothing catches
\* what it raises.
SrcFetchEnds ==
    /\ pc = "src_fetch"
    /\ fetch.state \in {"returned", "raised"}
    /\ IF fetch.state = "returned"
       THEN /\ pc' = "save"
            /\ UNCHANGED exit_code
       ELSE /\ pc' = "exited"
            /\ exit_code' = 1
    /\ served' = [served EXCEPT !.src = fetch.body]
    /\ UNCHANGED <<script, url_set, imd_json, fetch, om, imd, clock, changed, runs,
                   snapshot, prev_run, file_before, warnVars, extractVars, saveVars>>

\* The snapshot is built with the time read now and handed to save_if_changed;
\* main ends.  The clock has moved on since the run before.
Save ==
    /\ pc = "save"
    /\ LET now == clock + 1
           out == IF script = "combined" THEN CombinedSnapshot(now, om, imd)
                  ELSE BengaluruSnapshot(now, served.src)
           r   == save_if_changed(imd_json, out)
       IN  /\ clock' = now
           /\ snapshot' = out
           /\ imd_json' = r.file
           /\ changed' = (IF r.changed THEN "written" ELSE "skipped")
    /\ pc' = "exited"
    /\ exit_code' = 0
    /\ UNCHANGED <<script, url_set, fetch, om, imd, runs, served, prev_run, file_before,
                   warnVars, extractVars, saveVars>>

\* The schedule runs the script again.
NextRun ==
    /\ pc = "exited"
    /\ runs < MaxRuns
    /\ runs' = runs + 1
    /\ prev_run' = [complete |-> changed # "none", served |-> served]
    /\ file_before' = imd_json
    /\ pc' = "start"
    /\ fetch' = IdleFetch
    /\ om' = OmDefault
    /\ imd' = ImdDefault
    /\ changed' = "none"
    /\ exit_code' = 0
    /\ snapshot' = JNull
    /\ served' = NothingServed
    /\ UNCHANGED <<script, url_set, imd_json, clock, warnVars, extractVars, saveVars>>

Next ==
    \/ Start
    \/ Request
    \/ OmFetchEnds
    \/ ImdFetchEnds
    \/ SrcFetchEnds
    \/ Save
    \/ NextRun

Spec == MainInit /\ [][Next]_vars

(***************************************************************************)
(* SpecSave: save_if_changed applied to snapshot files and payloads.       *)
(***************************************************************************)

\* Latest fetched_at among the payloads tried.
MaxStamp == 2

\* value with the pairs of every object in reverse order.
RECURSIVE Reversed(_)
Reversed(value) ==
    IF value.t = "obj"
    THEN JObj([i \in DOMAIN value.v |->
                 LET p == value.v[Len(value.v) + 1 - i] IN <<p[1], Reversed(p[2])>>])
    ELSE value

SavePayloads ==
    {CombinedSnapshot(now, o, i) :
        now \in 1..MaxStamp, o \in {OmDefault, JsonOf("A")},
        i \in {ImdDefault, ImdOf("A"), ImdOf("B")}}

\* The files tried: none, one that is not JSON, the text null, and each payload
\* as json.dump writes it and with its keys in another order.
SaveFiles ==
    {NoFile, GarbageFile, WrittenFile(JNull)}
    \cup {WrittenFile(p) : p \in SavePayloads}
    \cup {WrittenFile(Reversed(p)) : p \in SavePayloads}

SaveInit ==
    /\ MainIdle
    /\ imd_json \in SaveFiles
    /\ payload_in \in SavePayloads
    /\ spc = "input"
    /\ pw_paragraphs = <<>> /\ picked = NotPicked /\ wpc = "idle"
    /\ document = <<>> /\ extracted = NotExtracted /\ xpc = "idle"

SaveIfChanged ==
    /\ spc = "input"
    /\ LET r == save_if_changed(imd_json, payload_in)
       IN  /\ imd_json' = r.file
           /\ changed' = (IF r.changed THEN "written" ELSE "skipped")
    /\ file_before' = imd_json
    /\ spc' = "done"
    /\ UNCHANGED <<script, url_set, pc, fetch, om, imd, clock, runs, exit_code, snapshot,
                   served, prev_run, payload_in, warnVars, extractVars>>

SaveNext == SaveIfChanged

SpecSave == SaveInit /\ [][SaveNext]_vars

(***************************************************************************)
(* Properties of pick_warnings (SpecWarn).                                 *)
(***************************************************************************)

Warnings == picked.out

\* a is b with some entries left out (order kept).
RECURSIVE SubsequenceFrom(_, _, _, _)
SubsequenceFrom(a, i, b, j) ==
    IF i > Len(a) THEN TRUE
    ELSE IF j > Len(b) THEN FALSE
         ELSE IF a[i] = b[j] THEN SubsequenceFrom(a, i + 1, b, j + 1)
              ELSE SubsequenceFrom(a, i, b, j + 1)

IsSubsequence(a, b) == SubsequenceFrom(a, 1, b, 1)

NoDuplicates(s) == \A i, j \in DOMAIN s : i # j => s[i] # s[j]

FirstIndex(x, s) == CHOOSE i \in DOMAIN s : s[i] = x /\ \A j \in 1..(i - 1) : s[j] # x

\* The input blocks, whitespace-normalized, that pass the noise filter and the
\* keyword filter, in document order.
PassingBlocks(paras) ==
    SelectSeq([i \in DOMAIN paras |-> NormalizeParagraph(paras[i])],
              LAMBDA p : ~is_nav_like(p) /\ contains_keywords(p))

\* The sentences of the joined text that are at least MIN_WARNING_LEN long
\* (stripped) and hold a keyword, whitespace-collapsed, in document order.
QualifyingSentences(paras) ==
    LET sentences == SplitSentences(Join(ParagraphSeparator, paras))
        stripped  == [k \in DOMAIN sentences |-> Strip(sentences[k])]
        kept      == SelectSeq(stripped,
                         LAMBDA s : Len(s) >= MIN_WARNING_LEN /\ contains_keywords(s))
    IN  [k \in DOMAIN kept |-> CollapseWhitespace(kept[k])]

\* What the pass that ran selects from.
Qualifying(paras) ==
    IF PassingBlocks(paras) # <<>> THEN PassingBlocks(paras)
    ELSE QualifyingSentences(paras)

\* The text the loop's k-th item contributes.
ItemText(k) ==
    IF picked.pass = "paragraph" THEN picked.items[k]
    ELSE CollapseWhitespace(Strip(picked.items[k]))

\* C6: the list pick_warnings returns has at most 8 entries, on either pass, and
\* the scan ends with the item that became the 8th entry (it goes through all
\* items only when fewer than 8 entries were collected).
C6_CapInvariant ==
    wpc = "done" =>
        /\ Len(Warnings) <= MAX_WARNINGS
        /\ picked.examined <= Len(picked.items)
        /\ Len(Warnings) = MAX_WARNINGS => ItemText(picked.examined) = Warnings[MAX_WARNINGS]
        /\ Len(Warnings) < MAX_WARNINGS => picked.examined = Len(picked.items)

\* C6 witness: the sentence pass collected 8 entries and left items unscanned.
C6_Witness ==
    /\ wpc = "done"
    /\ picked.pass = "sentence"
    /\ Len(Warnings) = MAX_WARNINGS
    /\ picked.examined < Len(picked.items)

\* The paragraph pass collected 8 entries and left candidates unscanned.
CapOnParagraphPass ==
    /\ wpc = "done"
    /\ picked.pass = "paragraph"
    /\ Len(Warnings) = MAX_WARNINGS
    /\ picked.examined < Len(picked.items)

\* C7: the returned list holds no two equal strings; its entries are in the order
\* of their first occurrence among the normalized qualifying texts; and each such
\* text is in it once, unless the cap cut the list before its first occurrence.
C7_Deduplication ==
    wpc = "done" =>
        LET q == Qualifying(pw_paragraphs)
        IN  /\ NoDuplicates(Warnings)
            /\ \A i \in DOMAIN Warnings : Warnings[i] \in Range(q)
            /\ \A i, j \in DOMAIN Warnings :
                   i < j => FirstIndex(Warnings[i], q) < FirstIndex(Warnings[j], q)
            /\ \A k \in DOMAIN q :
                   \/ q[k] \in Range(Warnings)
                   \/ /\ Len(Warnings) = MAX_WARNINGS
                      /\ FirstIndex(q[k], q) > FirstIndex(Warnings[MAX_WARNINGS], q)

\* C7 witness: two input paragraphs that differ only in whitespace were both
\* candidates, and the text is in the result.
C7_Witness ==
    /\ wpc = "done"
    /\ picked.pass = "paragraph"
    /\ \E i, j \in DOMAIN pw_paragraphs :
           /\ i < j
           /\ pw_paragraphs[i] # pw_paragraphs[j]
           /\ NormalizeParagraph(pw_paragraphs[i]) = NormalizeParagraph(pw_paragraphs[j])
           /\ NormalizeParagraph(pw_paragraphs[i]) \in Range(Warnings)

\* The sentence pass met the same sentence twice and kept it once.
DuplicateOnSentencePass ==
    /\ wpc = "done"
    /\ picked.pass = "sentence"
    /\ ~NoDuplicates(QualifyingSentences(pw_paragraphs))
    /\ Warnings # <<>>

\* C8 as claimed: the returned list is always a subsequence of the input blocks
\* that passed the noise filter and the keyword filter.
C8_AlwaysFromPassingBlocks ==
    wpc = "done" => IsSubsequence(Warnings, PassingBlocks(pw_paragraphs))

\* C8 amended: when some block passes both filters, the returned list is a
\* subsequence, in document order, of the normalized blocks that passed both;
\* when none does, it is a subsequence of the qualifying sentences of the joined
\* text, which come from blocks that failed a filter.
C8_SubsequenceOfQualifying ==
    wpc = "done" =>
        /\ PassingBlocks(pw_paragraphs) # <<>> =>
               /\ picked.pass = "paragraph"
               /\ IsSubsequence(Warnings, PassingBlocks(pw_paragraphs))
        /\ PassingBlocks(pw_paragraphs) = <<>> =>
               /\ picked.pass = "sentence"
               /\ IsSubsequence(Warnings, QualifyingSentences(pw_paragraphs))

\* C8 witness: the paragraph pass returned warnings from an input in which a
\* keyword-bearing block failed the noise filter.
C8_Witness ==
    /\ wpc = "done"
    /\ picked.pass = "paragraph"
    /\ Warnings # <<>>
    /\ \E i \in DOMAIN pw_paragraphs :
           LET p == NormalizeParagraph(pw_paragraphs[i])
           IN  is_nav_like(p) /\ contains_keywords(p) /\ Len(p) >= MIN_WARNING_LEN

\* C9 as claimed: no returned string is shorter than 40 characters.
C9_NoShortWarning ==
    wpc = "done" => \A i \in DOMAIN Warnings : Len(Warnings[i]) >= MIN_WARNING_LEN

(***************************************************************************)
(* Properties of extract_visible_paragraphs (SpecExtract).                 *)
(***************************************************************************)

\* The priority order of the regions, as stated.
RegionPriority == <<"main", "article", "section", "#content", ".content">>

\* The element the k-th selector of the priority order selects (0: none).
RegionAt(k) == select_one(document, Remaining(document), RegionPriority[k])

\* The blocks inside an element.
BlocksInside(el) ==
    BlocksOf(document, Remaining(document),
             {n \in Remaining(document) : IsInside(document, n, el)})

Matching == {k \in DOMAIN RegionPriority : RegionAt(k) # 0}

Productive == {k \in Matching : BlocksInside(RegionAt(k)) # <<>>}

Least(S) == CHOOSE k \in S : \A m \in S : k <= m

\* C10 as claimed: whenever some selector matches, every returned block comes
\* from the first matching region in priority order (from the region's element
\* or from inside it).
C10_FirstMatchWins ==
    (xpc = "done" /\ Matching # {}) =>
        \A k \in DOMAIN extracted.blocks :
            RegionAt(Least(Matching)) \in AncestorsOrSelf(document, extracted.blocks[k].node)

\* C10 amended: the returned blocks are those of the first region, in priority
\* order, that matches and holds a non-empty block, and all of them lie inside
\* it; a matching region without a non-empty block is passed over, and when no
\* region holds one the blocks of the whole document are returned.
C10_FirstProductiveRegionWins ==
    xpc = "done" =>
        IF Productive # {}
        THEN LET el == RegionAt(Least(Productive))
             IN  /\ extracted.region = el
                 /\ extracted.blocks = BlocksInside(el)
                 /\ \A k \in DOMAIN extracted.blocks :
                        IsInside(document, extracted.blocks[k].node, el)
        ELSE /\ extracted.region = 0
             /\ extracted.blocks =
                    BlocksOf(document, Remaining(document), Remaining(document))

\* C10 witness: a region of higher priority matched but held no block, and the
\* blocks of a region of lower priority were returned.
C10_Witness ==
    /\ xpc = "done"
    /\ Productive # {}
    /\ Least(Matching) < Least(Productive)
    /\ extracted.region = RegionAt(Least(Productive))
    /\ extracted.blocks # <<>>

\* Two regions matched, each with blocks of its own, and the one of higher
\* priority was used.
TwoProductiveRegions ==
    /\ xpc = "done"
    /\ \E j, k \in Productive :
           j < k /\ BlocksInside(RegionAt(j)) # BlocksInside(RegionAt(k))
    /\ extracted.region = RegionAt(Least(Productive))

(***************************************************************************)
(* Properties of fetch_with_retries and main (Spec).                       *)
(***************************************************************************)

IsSuccess(resp) == ~resp.error /\ 200 <= resp.status /\ resp.status < 300

IsClientError(resp) == ~resp.error /\ 400 <= resp.status /\ resp.status < 500

\* C1 as claimed: a 401, 429 or other 4xx response ends the fetch at once: it is
\* the last request of the fetch, the fetch has raised, and no sleep follows it.
C1_ClientErrorAborts ==
    \A i \in DOMAIN fetch.log :
        IsClientError(fetch.log[i]) =>
            /\ i = Len(fetch.log)
            /\ fetch.state = "raised"
            /\ Len(fetch.sleeps) < i

\* The reachable state that refutes C1: a second request after a 401 or a 429.
RequestAfterRateLimit ==
    \E i \in DOMAIN fetch.log :
        /\ ~fetch.log[i].error
        /\ fetch.log[i].status \in {401, 429}
        /\ i < Len(fetch.log)

\* The sleeps of a fetch that goes through all its attempts.
BackoffSchedule(which) == IF which = "combined" THEN <<2, 4>> ELSE <<3, 6>>

\* C5: fetch_with_retries issues at most MAX_RETRIES requests; it sleeps once
\* after each attempt but the last, 2s then 4s (combined) or 3s then 6s
\* (bengaluru); it returns the first 2xx response it receives; and once
\* MAX_RETRIES attempts have failed it raises SystemExit.
C5_BoundedRetry ==
    fetch.state # "idle" =>
        /\ Len(fetch.log) <= MAX_RETRIES
        /\ fetch.sleeps = Prefix(BackoffSchedule(script), Len(fetch.sleeps))
        /\ fetch.state = "running" =>
               /\ Len(fetch.log) < MAX_RETRIES
               /\ Len(fetch.sleeps) = Len(fetch.log)
               /\ \A i \in DOMAIN fetch.log : ~IsSuccess(fetch.log[i])
        /\ fetch.state = "returned" =>
               /\ Len(fetch.sleeps) = Len(fetch.log) - 1
               /\ IsSuccess(fetch.log[Len(fetch.log)])
               /\ fetch.body = fetch.log[Len(fetch.log)].body
               /\ \A i \in 1..(Len(fetch.log) - 1) : ~IsSuccess(fetch.log[i])
        /\ fetch.state = "raised" =>
               /\ fetch.exc = "SystemExit"
               /\ Len(fetch.log) = MAX_RETRIES
               /\ Len(fetch.sleeps) = MAX_RETRIES - 1
               /\ \A i \in DOMAIN fetch.log : ~IsSuccess(fetch.log[i])

\* C5 witness: a fetch of fetch_imd_bengaluru.py met network errors and 5xx
\* responses only, slept twice and raised SystemExit.
C5_Witness ==
    /\ script = "bengaluru"
    /\ fetch.state = "raised"
    /\ fetch.exc = "SystemExit"
    /\ fetch.sleeps = <<3, 6>>
    /\ \A i \in DOMAIN fetch.log : fetch.log[i].error \/ fetch.log[i].status = 503
    /\ \E i \in DOMAIN fetch.log : fetch.log[i].error

\* A fetch returned the 2xx response of its third attempt.
ReturnedOnLastAttempt ==
    /\ fetch.state = "returned"
    /\ Len(fetch.log) = MAX_RETRIES
    /\ fetch.sleeps = BackoffSchedule(script)

\* C2 as claimed: whatever the two fetches of fetch_imd_combined.py met, main
\* reaches save_if_changed, and the snapshot holds the data of each source that
\* was read and the default value of each that was not.
C2_AlwaysReachesSave ==
    (script = "combined" /\ pc = "exited") =>
        /\ changed # "none"
        /\ snapshot =
               CombinedSnapshot(clock,
                   IF served.om \in Bodies /\ IsJson(served.om)
                   THEN JsonOf(served.om) ELSE OmDefault,
                   IF served.imd \in Bodies THEN ImdOf(served.imd) ELSE ImdDefault)

\* The reachable state that refutes C2: the forecast was read, the page fetch ran
\* out of attempts, and the run ended without calling save_if_changed.
ForecastLostWithPage ==
    /\ script = "combined"
    /\ pc = "exited"
    /\ served.om \in {"A", "B"}
    /\ served.imd = "none"
    /\ changed = "none"

\* C4 as claimed: when two runs of fetch_imd_combined.py in a row reach
\* save_if_changed and every source returned the same readable content in both,
\* the second run reports no change and leaves imd.json as it was.
C4_SecondRunUnchanged ==
    ( /\ script = "combined"
      /\ pc = "exited"
      /\ changed # "none"
      /\ prev_run.complete
      /\ prev_run.served = served
      /\ \A s \in DOMAIN served : served[s] # "junk" ) =>
        /\ changed = "skipped"
        /\ imd_json = file_before

(***************************************************************************)
(* Properties of save_if_changed (SpecSave).                               *)
(***************************************************************************)

Keys(obj) == {obj.v[i][1] : i \in DOMAIN obj.v}

Lookup(obj, k) == (CHOOSE p \in Range(obj.v) : p[1] = k)[2]

\* Two JSON values are equal up to the order of the keys of their objects.
RECURSIVE StructurallyEqual(_, _)
StructurallyEqual(a, b) ==
    IF a.t # b.t THEN FALSE
    ELSE IF a.t = "obj"
         THEN /\ Keys(a) = Keys(b)
              /\ \A k \in Keys(a) : StructurallyEqual(Lookup(a, k), Lookup(b, k))
         ELSE IF a.t = "arr"
              THEN /\ Len(a.v) = Len(b.v)
                   /\ \A i \in DOMAIN a.v : StructurallyEqual(a.v[i], b.v[i])
              ELSE a.v = b.v

\* The file the call found parses and is structurally equal to the payload.
SameContent ==
    /\ file_before.exists
    /\ file_before.json
    /\ StructurallyEqual(file_before.doc, payload_in)

\* C3: save_if_changed returns False and leaves the file as it is exactly when
\* the existing file parses and is structurally equal to the payload; otherwise
\* it writes the payload and returns True; afterwards the file's content is
\* structurally equal to the payload.
C3_WriteOnlyOnChange ==
    spc = "done" =>
        /\ changed = "skipped" <=> SameContent
        /\ SameContent => imd_json = file_before
        /\ ~SameContent => (changed = "written" /\ imd_json = WrittenFile(payload_in))
        /\ imd_json.exists /\ imd_json.json
        /\ StructurallyEqual(imd_json.doc, payload_in)

\* C3 witness: the write was skipped for a file whose keys are in another order
\* than the payload's.
C3_Witness ==
    /\ spc = "done"
    /\ changed = "skipped"
    /\ file_before.doc # payload_in
    /\ imd_json = file_before

\* The file was overwritten: it held other content, or no JSON at all.
Overwritten ==
    /\ spc = "done"
    /\ changed = "written"
    /\ file_before.exists
    /\ imd_json # file_before

=============================================================================
